---------------------------- MODULE Spec2Model ----------------------------
(***************************************************************************)
(* Insider-threat detection: identify_insider_threats in its two variants. *)
(*   "basic"   : src/Insider_Threat_Detection.py (sensitive-access scorer) *)
(*   "lateral" : src/unnamed/part_000 (scorer + lateral movement + merge)  *)
(* One call of the function is followed statement by statement; the        *)
(* caller's arguments and the content of the log file are fixed in Init.   *)
(*                                                                         *)
(* Time is counted in ticks since 2022-01-01T00:00; TicksPerHour ticks     *)
(* make one hour.  User identities are numbered in their sort order.       *)
(* mean and std are real numbers in pandas; every comparison against the   *)
(* threshold is decided here exactly, on integers (see Exceeds).           *)
(***************************************************************************)
EXTENDS Integers, Sequences, FiniteSets, TLC

VARIABLES
    variant,                      \* which of the two source files is called
    access_logs_file,             \* argument: the source handle
    file_rows,                    \* the rows of the CSV file the handle names
    sensitive_events,             \* argument: set of event types
    start_date, end_date,         \* arguments: None or <<tick>>
    threshold_factor,             \* argument
    lateral_threshold,            \* argument (lateral variant)
    pc,                           \* position in the function body
    access_logs,                  \* the DataFrame (after load, then filtered)
    user_sensitive_event_counts,  \* Series user -> count
    threshold,                    \* mean + threshold_factor * std, see ThresholdOf
    suspected_insiders,           \* index of the Series of users above threshold
    lateral_movements,            \* Series user -> max distinct systems per hour
    lateral_movement_suspects,    \* index of users >= lateral_threshold
    result,                       \* the returned value
    outcome,                      \* which return statement was taken
    executed,                     \* the statements of the body that ran
    previous                      \* what the caller got from an earlier call

vars == << variant, access_logs_file, file_rows, sensitive_events, start_date,
           end_date, threshold_factor, lateral_threshold, pc, access_logs,
           user_sensitive_event_counts, threshold, suspected_insiders,
           lateral_movements, lateral_movement_suspects, result, outcome,
           executed, previous >>

(***************************************************************************)
(* Bounds of the model.                                                    *)
(***************************************************************************)
MaxLen == 4            \* rows of a log file of Spec
MaxWindowLen == 4      \* rows of a log file of SpecWindow
MaxHoursLen == 3       \* rows of a log file of SpecHours
TicksPerHour == 2      \* resolution of the time axis
MaxPop == 11           \* users of a population log (SpecPop)
MaxCount == 3          \* sensitive events per user of a population log

(***************************************************************************)
(* Values of the Python program.                                           *)
(***************************************************************************)
None == << >>
Some(x) == << x >>
ValueOf(opt) == opt[1]

\* datetime(2022, 1, 1) and datetime(2022, 7, 1) on the tick axis
\* (January to June 2022 have 181 days).
DefaultStart == 0
DefaultEnd == 181 * 24 * TicksPerHour
DefaultThresholdFactor == 3
DefaultLateralThreshold == 5

\* The files a handle can name: "" stands for an empty or None handle.
FileKinds == {"", "missing.csv", "empty.csv", "nocolumn.csv", "badtime.csv",
              "logs.csv"}

Row(u, ty, t, s) ==
    [useridentity |-> u, eventtype |-> ty, eventtime |-> t, system |-> s]

Rows(users, types, times, systems) ==
    {Row(u, ty, t, s) : u \in users, ty \in types, t \in times, s \in systems}

NoSeries == << >>
NoResult == [kind |-> "None", series |-> NoSeries, rows |-> << >>]
SeriesResult(s) == [kind |-> "Series", series |-> s, rows |-> << >>]
FrameResult(rows) == [kind |-> "DataFrame", series |-> NoSeries, rows |-> rows]


(***************************************************************************)
(* DataFrame and Series operations.                                        *)
(***************************************************************************)
\* Variant: the end date taken as inclusive.
InWindow_Closed(t, start, end) == t >= start /\ t <= end

\* access_logs[(eventtime >= start_date) & (eventtime < end_date)]
InWindow(t, start, end) == t >= start /\ t < end

FilterWindow(rows, start, end) ==
    SelectSeq(rows, LAMBDA r : InWindow(r.eventtime, start, end))

\* start_date / end_date after "if ... is None"
EffectiveStart(start) == IF start = None THEN DefaultStart ELSE ValueOf(start)
EffectiveEnd(end) == IF end = None THEN DefaultEnd ELSE ValueOf(end)

\* access_logs[eventtype.isin(sensitive_events)].groupby('useridentity')['eventtype'].count()
\* A group exists only for a user with at least one sensitive row.
SensitiveRowsOf(rows, sens, u) ==
    {i \in DOMAIN rows : rows[i].eventtype \in sens /\ rows[i].useridentity = u}

CountSensitive(rows, sens) ==
    LET users == {rows[i].useridentity : i \in {j \in DOMAIN rows : rows[j].eventtype \in sens}}
    IN  [u \in users |-> Cardinality(SensitiveRowsOf(rows, sens, u))]

RECURSIVE SumOver(_, _)
SumOver(f, S) ==
    IF S = {} THEN 0
    ELSE LET x == CHOOSE y \in S : TRUE IN f[x] + SumOver(f, S \ {x})

\* Variant: the threshold is the mean alone, the std term is lost.
ThresholdOf_MeanOnly(counts, factor) ==
    LET n  == Cardinality(DOMAIN counts)
        s  == SumOver(counts, DOMAIN counts)
        sq == SumOver([u \in DOMAIN counts |-> counts[u] * counts[u]], DOMAIN counts)
    IN  [n |-> n, sum |-> s, w |-> n * sq - s * s, factor |-> 0, nan |-> (n = 1)]

\* Variant: the threshold is mean - factor * std.
ThresholdOf_Minus(counts, factor) ==
    LET n  == Cardinality(DOMAIN counts)
        s  == SumOver(counts, DOMAIN counts)
        sq == SumOver([u \in DOMAIN counts |-> counts[u] * counts[u]], DOMAIN counts)
    IN  [n |-> n, sum |-> s, w |-> n * sq - s * s, factor |-> 0 - factor, nan |-> (n = 1)]

\* Series.mean() and Series.std() (sample standard deviation, ddof = 1), kept
\* exact: n values, their sum, and w = n * sum(c^2) - (sum c)^2, so that
\* mean = sum / n and std = sqrt(w / (n * (n - 1))); std is NaN when n = 1.
\* The threshold is mean + factor * std, NaN when std is NaN.
ThresholdOf(counts, factor) ==
    LET n  == Cardinality(DOMAIN counts)
        s  == SumOver(counts, DOMAIN counts)
        sq == SumOver([u \in DOMAIN counts |-> counts[u] * counts[u]], DOMAIN counts)
    IN  [n |-> n, sum |-> s, w |-> n * sq - s * s, factor |-> factor, nan |-> (n = 1)]

\* x * |x|: a strictly increasing function, so comparing SignedSquare values
\* compares the numbers themselves.
SignedSquare(x) == IF x >= 0 THEN x * x ELSE 0 - (x * x)

\* Variant: the filter written as ~(count <= threshold), which a NaN
\* threshold satisfies.
Exceeds_NotLessEq(c, th) ==
    \/ th.nan
    \/ SignedSquare(th.n * c - th.sum) * (th.n - 1) > SignedSquare(th.factor) * th.n * th.w

\* Variant: Series.sem() (std / sqrt(n)) in the place of Series.std().
Exceeds_Sem(c, th) ==
    /\ ~ th.nan
    /\ SignedSquare(th.n * c - th.sum) * (th.n - 1) > SignedSquare(th.factor) * th.w

\* count > threshold.  A comparison with NaN is False.  Otherwise
\*   c > sum/n + factor * sqrt(w / (n (n-1)))
\*   <=> (n c - sum) * sqrt(n - 1) > factor * sqrt(n w)
\* and both sides are compared through their signed squares.
Exceeds(c, th) ==
    /\ ~ th.nan
    /\ SignedSquare(th.n * c - th.sum) * (th.n - 1) > SignedSquare(th.factor) * th.n * th.w

\* user_sensitive_event_counts[user_sensitive_event_counts > threshold]
AboveThreshold(counts, th) == {u \in DOMAIN counts : Exceeds(counts[u], th)}

\* Variant: resample('1D'), the calendar day.
HourBucket_Day(t) == t \div (24 * TicksPerHour)

\* resample('1H'): the calendar hour an instant falls in.
HourBucket(t) == t \div TicksPerHour

\* df.set_index('eventtime').resample('1H')['system'].nunique().max() of one user
MaxDistinctSystems(rows, u) ==
    LET mine    == {i \in DOMAIN rows : rows[i].useridentity = u}
        buckets == {HourBucket(rows[i].eventtime) : i \in mine}
        nunique(b) == Cardinality({rows[i].system : i \in {j \in mine : HourBucket(rows[j].eventtime) = b}})
    IN  CHOOSE m \in {nunique(b) : b \in buckets} : \A b \in buckets : nunique(b) <= m

\* access_logs.groupby('useridentity').apply(...): one entry per user with a row
LateralMovements(rows) ==
    [u \in {rows[i].useridentity : i \in DOMAIN rows} |-> MaxDistinctSystems(rows, u)]

\* lateral_movements[lateral_movements >= lateral_threshold]
AtLeast(lm, limit) == {u \in DOMAIN lm : lm[u] >= limit}

\* Variant: index.union, either signal suffices.
CombinedSuspects_Union(a, b) == a \cup b

\* suspected_insiders.index.intersection(lateral_movement_suspects.index)
CombinedSuspects(a, b) == a \cap b

\* The sort key (useridentity, eventtime) of sort_values.
KeyLess(a, b) ==
    \/ a.useridentity < b.useridentity
    \/ a.useridentity = b.useridentity /\ a.eventtime < b.eventtime

\* Insert r after every row whose key is not greater (a stable sort).
RECURSIVE InsertSorted(_, _)
InsertSorted(sorted, r) ==
    IF sorted = << >> THEN << r >>
    ELSE IF KeyLess(r, sorted[Len(sorted)])
         THEN Append(InsertSorted(SubSeq(sorted, 1, Len(sorted) - 1), r), sorted[Len(sorted)])
         ELSE Append(sorted, r)

\* Variant: the incidents returned in the order of the log.
SortValues_Unsorted(rows) == rows

\* incidents.sort_values(by=['useridentity', 'eventtime'])
RECURSIVE SortValues(_)
SortValues(rows) ==
    IF rows = << >> THEN << >>
    ELSE InsertSorted(SortValues(SubSeq(rows, 1, Len(rows) - 1)), rows[Len(rows)])

\* access_logs[access_logs['useridentity'].isin(combined_suspects)]
RowsOfUsers(rows, users) == SelectSeq(rows, LAMBDA r : r.useridentity \in users)


(***************************************************************************)
(* The call.                                                               *)
(***************************************************************************)
NoPrevious == [called |-> FALSE, result |-> NoResult, outcome |-> "none"]

\* The state on entry of identify_insider_threats(file, sens, ...).
Call(v, file, rows, sens, sd, ed, f, lt) ==
    /\ variant = v
    /\ access_logs_file = file
    /\ file_rows = rows
    /\ sensitive_events = sens
    /\ start_date = sd
    /\ end_date = ed
    /\ threshold_factor = f
    /\ lateral_threshold = lt
    /\ pc = "validate"
    /\ access_logs = << >>
    /\ user_sensitive_event_counts = NoSeries
    /\ threshold = ThresholdOf(NoSeries, f)
    /\ suspected_insiders = {}
    /\ lateral_movements = NoSeries
    /\ lateral_movement_suspects = {}
    /\ result = NoResult
    /\ outcome = "running"
    /\ executed = {}
    /\ previous = NoPrevious

\* return <value>, after the statements in `ran`.
Return(value, how, ran) ==
    /\ result' = value
    /\ outcome' = how
    /\ pc' = "done"
    /\ executed' = executed \cup ran

arguments == << variant, access_logs_file, file_rows, sensitive_events,
                start_date, end_date, threshold_factor, lateral_threshold, previous >>

\* Variant: only the handle is validated.
InvalidInput_FileOnly(file, sens) == file = ""

\* if not access_logs_file or not sensitive_events: ... return None
InvalidInput(file, sens) == file = "" \/ sens = {}

Validate ==
    /\ pc = "validate"
    /\ IF InvalidInput(access_logs_file, sensitive_events)
       THEN Return(NoResult, "invalid_input", {"validate"})
       ELSE /\ pc' = "load"
            /\ executed' = executed \cup {"validate"}
            /\ UNCHANGED << result, outcome >>
    /\ UNCHANGED << arguments, access_logs, user_sensitive_event_counts, threshold,
                    suspected_insiders, lateral_movements, lateral_movement_suspects >>

\* pd.read_csv raises FileNotFoundError: except FileNotFoundError ... return None
ReadCsvFileNotFound ==
    /\ pc = "load"
    /\ access_logs_file = "missing.csv"
    /\ Return(NoResult, "file_not_found", {"read_csv"})
    /\ UNCHANGED << arguments, access_logs, user_sensitive_event_counts, threshold,
                    suspected_insiders, lateral_movements, lateral_movement_suspects >>

\* pd.read_csv raises EmptyDataError: except pd.errors.EmptyDataError ... return None
ReadCsvEmptyData ==
    /\ pc = "load"
    /\ access_logs_file = "empty.csv"
    /\ Return(NoResult, "empty_data", {"read_csv"})
    /\ UNCHANGED << arguments, access_logs, user_sensitive_event_counts, threshold,
                    suspected_insiders, lateral_movements, lateral_movement_suspects >>

\* access_logs['eventtime'] raises KeyError: except KeyError ... return None
EventtimeKeyError ==
    /\ pc = "load"
    /\ access_logs_file = "nocolumn.csv"
    /\ Return(NoResult, "key_error", {"read_csv"})
    /\ UNCHANGED << arguments, access_logs, user_sensitive_event_counts, threshold,
                    suspected_insiders, lateral_movements, lateral_movement_suspects >>

\* pd.to_datetime raises on a malformed timestamp: except Exception ... return None
ToDatetimeError ==
    /\ pc = "load"
    /\ access_logs_file = "badtime.csv"
    /\ Return(NoResult, "exception", {"read_csv", "to_datetime"})
    /\ UNCHANGED << arguments, access_logs, user_sensitive_event_counts, threshold,
                    suspected_insiders, lateral_movements, lateral_movement_suspects >>

\* read_csv, to_datetime, the default dates and the date filter
LoadAndFilter ==
    /\ pc = "load"
    /\ access_logs_file = "logs.csv"
    /\ access_logs' = FilterWindow(file_rows, EffectiveStart(start_date), EffectiveEnd(end_date))
    /\ executed' = executed \cup {"read_csv", "to_datetime", "filter"}
    /\ pc' = "score"
    /\ UNCHANGED << arguments, user_sensitive_event_counts, threshold, suspected_insiders,
                    lateral_movements, lateral_movement_suspects, result, outcome >>

\* The sensitive-access scorer: the count table, "if not ....empty", the
\* threshold and the users above it.  The basic variant returns the Series of
\* these users; the lateral variant goes on.
ScoreSensitiveAccess ==
    /\ pc = "score"
    /\ LET counts == CountSensitive(access_logs, sensitive_events)
           th     == ThresholdOf(counts, threshold_factor)
           above  == AboveThreshold(counts, th)
       IN  /\ user_sensitive_event_counts' = counts
           /\ IF DOMAIN counts = {}
              THEN /\ Return(NoResult, "no_signal", {"count"})
                   /\ UNCHANGED << threshold, suspected_insiders >>
              ELSE /\ threshold' = th
                   /\ suspected_insiders' = above
                   /\ IF variant = "basic"
                      THEN Return(SeriesResult([u \in above |-> counts[u]]), "suspects",
                                  {"count", "threshold"})
                      ELSE /\ pc' = "lateral"
                           /\ executed' = executed \cup {"count", "threshold"}
                           /\ UNCHANGED << result, outcome >>
    /\ UNCHANGED << arguments, access_logs, lateral_movements, lateral_movement_suspects >>

\* The lateral-movement detector (lateral variant).
DetectLateralMovement ==
    /\ pc = "lateral"
    /\ lateral_movements' = LateralMovements(access_logs)
    /\ lateral_movement_suspects' = AtLeast(LateralMovements(access_logs), lateral_threshold)
    /\ executed' = executed \cup {"lateral"}
    /\ pc' = "correlate"
    /\ UNCHANGED << arguments, access_logs, user_sensitive_event_counts, threshold,
                    suspected_insiders, result, outcome >>

\* The incident correlator (lateral variant).
Correlate ==
    /\ pc = "correlate"
    /\ LET combined_suspects == CombinedSuspects(suspected_insiders, lateral_movement_suspects)
       IN  IF combined_suspects # {}
           THEN Return(FrameResult(SortValues(RowsOfUsers(access_logs, combined_suspects))),
                       "incidents", {"correlate", "sort"})
           ELSE Return(NoResult, "no_incidents", {"correlate"})
    /\ UNCHANGED << arguments, access_logs, user_sensitive_event_counts, threshold,
                    suspected_insiders, lateral_movements, lateral_movement_suspects >>

Next ==
    \/ Validate
    \/ ReadCsvFileNotFound
    \/ ReadCsvEmptyData
    \/ EventtimeKeyError
    \/ ToDatetimeError
    \/ LoadAndFilter
    \/ ScoreSensitiveAccess
    \/ DetectLateralMovement
    \/ Correlate

(***************************************************************************)
(* The calls a specification starts from: a set of log files and a set of  *)
(* argument lists, and the calls that fail before the log is analysed.     *)
(***************************************************************************)
RECURSIVE SeqsUpTo(_, _)
SeqsUpTo(S, n) ==
    IF n = 0 THEN {<< >>}
    ELSE LET shorter == SeqsUpTo(S, n - 1)
         IN  shorter \cup {Append(q, x) : q \in {r \in shorter : Len(r) = n - 1}, x \in S}

Variants == {"basic", "lateral"}

Args(v, sens, sd, ed, f, lt) ==
    [variant |-> v, sens |-> sens, sd |-> sd, ed |-> ed, f |-> f, lt |-> lt]

\* The defaults of the signature, for a sensitive set and dates.
DefaultArgs(v, sens) ==
    Args(v, sens, None, None, DefaultThresholdFactor, DefaultLateralThreshold)

CallWith(file, rows, a) == Call(a.variant, file, rows, a.sens, a.sd, a.ed, a.f, a.lt)

\* A handle that is empty, an empty sensitive set, a file that cannot be
\* read, and a sensitive type that no row of the file has.
EdgeCalls(logs) ==
    \E v \in Variants :
        \/ \E rows \in logs, sens \in {{}, {"sensitive_read"}} :
               CallWith("", rows, DefaultArgs(v, sens))
        \/ \E rows \in logs, file \in {"logs.csv", "missing.csv"} :
               CallWith(file, rows, DefaultArgs(v, {}))
        \/ \E file \in {"missing.csv", "empty.csv", "nocolumn.csv", "badtime.csv"} :
               CallWith(file, << >>, DefaultArgs(v, {"sensitive_read"}))
        \/ \E rows \in logs :
               CallWith("logs.csv", rows, DefaultArgs(v, {"sensitive_write"}))

CallsOn(logs, args, edge) ==
    \/ \E rows \in logs, a \in args : CallWith("logs.csv", rows, a)
    \/ EdgeCalls(edge)

(***************************************************************************)
(* Spec: every log of at most MaxLen rows of two users, two event types    *)
(* and two systems, all rows within one hour of the default window.        *)
(***************************************************************************)
EventsCorrelate == Rows({1, 2}, {"sensitive_read", "login"}, {0}, {1, 2})

ArgsCorrelate ==
    {Args("lateral", {"sensitive_read"}, None, None, f, lt) : f \in {-2, 0}, lt \in {1, 2}}
    \cup {DefaultArgs("lateral", {"sensitive_read"})}
    \cup {Args("basic", {"sensitive_read"}, None, None, f, DefaultLateralThreshold) :
            f \in {-2, 0, DefaultThresholdFactor}}

Init == CallsOn(SeqsUpTo(EventsCorrelate, MaxLen), ArgsCorrelate, SeqsUpTo(EventsCorrelate, 1))

Spec == Init /\ [][Next]_vars

(***************************************************************************)
(* SpecWindow: logs whose rows lie on the borders of the date window,      *)
(* called with the default dates and with explicit ones.  User 1 has rows  *)
(* inside and outside the windows, user 2 a row inside both.               *)
(***************************************************************************)
EventsWindow ==
    Rows({1}, {"sensitive_read"}, {0, 1, TicksPerHour, DefaultEnd}, {1, 2})
    \cup Rows({2}, {"sensitive_read"}, {1}, {1})

DatesWindow == {<< None, None >>, << Some(1), Some(TicksPerHour) >>}

ArgsWindow ==
    UNION {{Args("lateral", {"sensitive_read"}, d[1], d[2], -2, 1),
            Args("lateral", {"sensitive_read"}, d[1], d[2], 0, 2),
            Args("basic", {"sensitive_read"}, d[1], d[2], 0, DefaultLateralThreshold)} :
           d \in DatesWindow}

InitWindow ==
    CallsOn(SeqsUpTo(EventsWindow, MaxWindowLen), ArgsWindow, SeqsUpTo(EventsWindow, 1))

SpecWindow == InitWindow /\ [][Next]_vars

(***************************************************************************)
(* SpecHours: logs whose rows lie on both sides of an hour boundary, on    *)
(* three systems; user 2 has non-sensitive rows only.                      *)
(***************************************************************************)
TimesHours == {0, TicksPerHour - 1, TicksPerHour}

EventsHours ==
    Rows({1}, {"sensitive_read"}, TimesHours, {1, 2, 3})
    \cup Rows({2}, {"login"}, TimesHours, {1, 2, 3})

ArgsHours ==
    {Args("lateral", {"sensitive_read"}, None, None, DefaultThresholdFactor, lt) : lt \in {2, 3}}

InitHours ==
    CallsOn(SeqsUpTo(EventsHours, MaxHoursLen), ArgsHours, SeqsUpTo(EventsHours, 1))

SpecHours == InitHours /\ [][Next]_vars

(***************************************************************************)
(* SpecPop: populations of 1 to MaxPop users with 1 to MaxCount sensitive  *)
(* rows each.  Users are numbered by increasing count: the scorer reads    *)
(* the counts only.                                                        *)
(***************************************************************************)
\* The non-decreasing count tables of n users.
RECURSIVE CountTables(_)
CountTables(n) ==
    IF n = 0 THEN {<< >>}
    ELSE UNION {{Append(c, k) : k \in (IF c = << >> THEN 1 ELSE c[Len(c)])..MaxCount} :
                c \in CountTables(n - 1)}

\* A log in which user u has c[u] sensitive rows.
RECURSIVE PopLog(_)
PopLog(c) ==
    IF c = << >> THEN << >>
    ELSE PopLog(SubSeq(c, 1, Len(c) - 1))
         \o [i \in 1..c[Len(c)] |-> Row(Len(c), "sensitive_read", 0, 1)]

FactorsPop == (0 - 1)..(DefaultThresholdFactor + 1)

ArgsPop ==
    {Args("lateral", {"sensitive_read"}, None, None, f, 1) : f \in FactorsPop}
    \cup {Args("basic", {"sensitive_read"}, None, None, f, DefaultLateralThreshold) :
            f \in FactorsPop}

InitPop ==
    CallsOn({PopLog(c) : c \in UNION {CountTables(n) : n \in 1..MaxPop}}, ArgsPop,
            {<< >>, PopLog(<< 1 >>)})

SpecPop == InitPop /\ [][Next]_vars

(***************************************************************************)
(* SpecScenario: three users; user 1 has 50 sensitive rows on 6 systems    *)
(* within one hour and a login row, users 2 and 3 have 2 and 3 sensitive   *)
(* rows on at most 2 systems.                                              *)
(***************************************************************************)
\* n sensitive rows of user u within the first hour, on the systems 1..k in turn.
Burst(u, n, k) ==
    [i \in 1..n |-> Row(u, "sensitive_read", i % TicksPerHour, 1 + (i % k))]

ScenarioLogs ==
    {<< Row(1, "login", 0, 1) >> \o Burst(2, 2, kb) \o Burst(1, 50, 6) \o Burst(3, 3, kc) :
       kb \in {1, 2}, kc \in {1, 2}}

ArgsScenario ==
    {Args(v, {"sensitive_read"}, None, None, f, lt) :
       v \in Variants, f \in (0 - 2)..(DefaultThresholdFactor + 1),
       lt \in (DefaultLateralThreshold - 1)..(DefaultLateralThreshold + 2)}

InitScenario == CallsOn(ScenarioLogs, ArgsScenario, {<< >>, PopLog(<< 1 >>)})

SpecScenario == InitScenario /\ [][Next]_vars

(***************************************************************************)
(* SpecCalls: a caller that calls the function a second time and compares  *)
(* the two returned values.                                                *)
(***************************************************************************)
EventsCalls == Rows({1, 2}, {"sensitive_read"}, {0}, {1})

ArgsCalls ==
    {Args("lateral", {"sensitive_read"}, None, None, f, 1) : f \in {0, DefaultThresholdFactor}}
    \cup {Args("basic", {"sensitive_read"}, None, None, f, DefaultLateralThreshold) :
            f \in {0, DefaultThresholdFactor}}

InitCalls == CallsOn(SeqsUpTo(EventsCalls, 3), ArgsCalls, {<< >>, PopLog(<< 1 >>)})

\* The second call: the first one's value is kept by the caller.
CallAgain ==
    /\ pc = "done"
    /\ ~ previous.called
    /\ previous' = [called |-> TRUE, result |-> result, outcome |-> outcome]
    /\ \E file \in FileKinds, rows \in SeqsUpTo(EventsCalls, 3),
          a \in ArgsCalls \cup {DefaultArgs(v, sens) : v \in Variants,
                                  sens \in {{}, {"sensitive_write"}}} :
        /\ (file # "logs.csv") => rows = << >>
        /\ variant' = a.variant
        /\ access_logs_file' = file
        /\ file_rows' = rows
        /\ sensitive_events' = a.sens
        /\ start_date' = a.sd
        /\ end_date' = a.ed
        /\ threshold_factor' = a.f
        /\ lateral_threshold' = a.lt
        /\ threshold' = ThresholdOf(NoSeries, a.f)
    /\ pc' = "validate"
    /\ access_logs' = << >>
    /\ user_sensitive_event_counts' = NoSeries
    /\ suspected_insiders' = {}
    /\ lateral_movements' = NoSeries
    /\ lateral_movement_suspects' = {}
    /\ result' = NoResult
    /\ outcome' = "running"
    /\ executed' = {}

NextCalls == Next \/ CallAgain

SpecCalls == InitCalls /\ [][NextCalls]_vars

(***************************************************************************)
(* Properties.                                                             *)
(***************************************************************************)
Occurrences(rows, e) == Cardinality({i \in DOMAIN rows : rows[i] = e})
RowSet(rows) == {rows[i] : i \in DOMAIN rows}
UsersOf(rows) == {rows[i].useridentity : i \in DOMAIN rows}
Scored == {"count", "threshold"} \subseteq executed
NoIncident == result.rows = << >> /\ DOMAIN result.series = {}

\* C1: a returned incident set (lateral variant) holds exactly the rows of the
\* date-filtered log, of every event type, whose user is both above the
\* sensitive-access threshold and at or above the lateral threshold; a user
\* with only one of the two signals has no row in it.
C1_IncidentsAreBothSignals ==
    (pc = "done" /\ result.kind = "DataFrame") =>
        LET sensitive == {u \in DOMAIN user_sensitive_event_counts :
                            Exceeds(user_sensitive_event_counts[u], threshold)}
            lateral   == {u \in DOMAIN lateral_movements :
                            lateral_movements[u] >= lateral_threshold}
        IN  /\ variant = "lateral"
            /\ suspected_insiders = sensitive
            /\ lateral_movement_suspects = lateral
            /\ \A e \in RowSet(access_logs) \cup RowSet(result.rows) :
                   Occurrences(result.rows, e) =
                       IF e.useridentity \in sensitive /\ e.useridentity \in lateral
                       THEN Occurrences(access_logs, e) ELSE 0

\* C1 witness: user 1 has both signals and a non-sensitive row that is
\* returned; user 2 is above the threshold only and has no row returned.
C1_Witness ==
    /\ pc = "done" /\ result.kind = "DataFrame"
    /\ 2 \in suspected_insiders \ lateral_movement_suspects
    /\ UsersOf(result.rows) = {1}
    /\ \E i \in DOMAIN result.rows : result.rows[i].eventtype = "login"

\* C3: when fewer than two users have a sensitive row in the filtered log,
\* the scorer flags nobody, whatever the threshold factor (positive, zero or
\* negative), and the call returns no incident.
C3_NoBaselineNoSuspect ==
    LET population == {access_logs[i].useridentity :
                         i \in {j \in DOMAIN access_logs :
                                  access_logs[j].eventtype \in sensitive_events}}
    IN  ("filter" \in executed /\ Cardinality(population) < 2) =>
            /\ suspected_insiders = {}
            /\ pc = "done" => NoIncident

\* C3 witness: a single user with two sensitive rows, scored with a negative
\* factor, and the call has returned.
C3_Witness ==
    /\ pc = "done" /\ Scored
    /\ threshold_factor < 0
    /\ DOMAIN user_sensitive_event_counts = {1}
    /\ user_sensitive_event_counts[1] >= 2
    /\ Cardinality(UsersOf(access_logs)) = 2

\* C5: with an empty handle or an empty sensitive set the call returns None
\* from the validation, in both variants: nothing is loaded, filtered,
\* counted, scored or correlated.
C5_InvalidInputFailsFast ==
    (access_logs_file = "" \/ sensitive_events = {}) =>
        /\ pc \in {"validate", "done"}
        /\ executed \subseteq {"validate"}
        /\ access_logs = << >>
        /\ user_sensitive_event_counts = NoSeries
        /\ suspected_insiders = {}
        /\ lateral_movements = NoSeries
        /\ lateral_movement_suspects = {}
        /\ pc = "done" => (outcome = "invalid_input" /\ result = NoResult)

\* C5 witness: a readable, non-empty log and an empty sensitive set; the call
\* has returned.
C5_Witness ==
    /\ pc = "done" /\ outcome = "invalid_input"
    /\ sensitive_events = {}
    /\ access_logs_file = "logs.csv" /\ file_rows # << >>

\* The scenario's log is the one called with: user 1 has 50 sensitive rows,
\* users 2 and 3 have 2 and 3.
ScenarioCall ==
    /\ access_logs_file = "logs.csv"
    /\ Len(file_rows) = 56
    /\ sensitive_events = {"sensitive_read"}
UserRows(u) == SelectSeq(file_rows, LAMBDA r : r.useridentity = u)

\* C2 as claimed: with the default threshold_factor 3 and lateral_threshold 5,
\* in the scenario the call returns user 1's rows and only these (lateral
\* variant), the Series of user 1 alone (basic variant).
C2_Original ==
    (ScenarioCall /\ pc = "done" /\ threshold_factor = 3
       /\ (variant = "lateral" => lateral_threshold = 5)) =>
        IF variant = "lateral"
        THEN result.kind = "DataFrame" /\ UsersOf(result.rows) = {1}
        ELSE DOMAIN result.series = {1}

\* C2 as amended: in the scenario, with threshold_factor 3 nobody is above
\* the threshold (50 is below mean + 3 * std, about 100.6) and the call
\* returns no incident; with lateral_threshold 5 user 1 is the sole incident
\* exactly when threshold_factor is at most 1 (lateral variant), and the
\* basic variant returns user 1 alone exactly when threshold_factor is 0 or 1.
C2_ScenarioNeedsFactorAtMostOne ==
    (ScenarioCall /\ pc = "done") =>
        /\ threshold_factor = 3 => (suspected_insiders = {} /\ NoIncident)
        /\ (variant = "lateral" /\ lateral_threshold = 5) =>
              IF threshold_factor <= 1
              THEN /\ result.kind = "DataFrame"
                   /\ UsersOf(result.rows) = {1}
                   /\ Len(result.rows) = 51
                   /\ \A e \in RowSet(UserRows(1)) :
                          Occurrences(result.rows, e) = Occurrences(file_rows, e)
              ELSE result = NoResult
        /\ variant = "basic" =>
              /\ result.kind = "Series"
              /\ DOMAIN result.series = {1} <=> threshold_factor \in {0, 1}
              /\ 1 \in DOMAIN result.series => result.series[1] = 50

\* C2 witness: the scenario with the default arguments has returned nothing,
\* user 1 being the only lateral-movement suspect.
C2_Witness ==
    /\ ScenarioCall /\ pc = "done" /\ variant = "lateral"
    /\ threshold_factor = 3 /\ lateral_threshold = 5
    /\ user_sensitive_event_counts = (1 :> 50 @@ 2 :> 2 @@ 3 :> 3)
    /\ lateral_movements[1] = 6
    /\ lateral_movement_suspects = {1}
    /\ result = NoResult

\* What the caller learns from an outcome: the log held no sensitive row, the
\* analysis ran and found nobody, the analysis could not run, or suspects
\* were found.
OutcomeClass(how, value) ==
    CASE how = "no_signal" -> "no_signal"
      [] how = "no_incidents" -> "nothing_found"
      [] how = "suspects" /\ DOMAIN value.series = {} -> "nothing_found"
      [] how \in {"suspects", "incidents"} -> "found"
      [] OTHER -> "could_not_run"

\* C4 as claimed: two calls that returned the same value ended in the same
\* one of the outcomes "no signal", "nothing found", "could not run".
C4_OutcomesDistinguishable ==
    (pc = "done" /\ previous.called /\ result = previous.result) =>
        OutcomeClass(outcome, result) = OutcomeClass(previous.outcome, previous.result)

\* C6: the filtered log, the count table and the lateral-movement table are
\* those of the rows with start_date <= eventtime < end_date, the bounds
\* being 2022-01-01 and 2022-07-01 when the caller gives none; the rows
\* returned are among them; a row outside changes nothing.
C6_HalfOpenWindow ==
    LET lo   == IF start_date = << >> THEN 0 ELSE start_date[1]
        hi   == IF end_date = << >> THEN 181 * 24 * TicksPerHour ELSE end_date[1]
        kept == SelectSeq(file_rows, LAMBDA r : lo <= r.eventtime /\ r.eventtime < hi)
    IN  /\ "filter" \in executed => access_logs = kept
        /\ Scored =>
              /\ user_sensitive_event_counts = CountSensitive(kept, sensitive_events)
              /\ suspected_insiders =
                     AboveThreshold(CountSensitive(kept, sensitive_events),
                                    ThresholdOf(CountSensitive(kept, sensitive_events),
                                                threshold_factor))
        /\ "lateral" \in executed => lateral_movements = LateralMovements(kept)
        /\ pc = "done" =>
              /\ \A e \in RowSet(result.rows) : Occurrences(result.rows, e) = Occurrences(kept, e)
              /\ \A u \in DOMAIN result.series :
                     result.series[u] =
                         Cardinality({i \in DOMAIN kept : /\ kept[i].useridentity = u
                                                          /\ kept[i].eventtype \in sensitive_events})

\* C6 witness: explicit dates; user 1 has two rows at start_date, which are
\* returned, and a row at end_date, which is not.
C6_Witness ==
    /\ pc = "done" /\ result.kind = "DataFrame"
    /\ start_date = Some(1) /\ end_date = Some(TicksPerHour)
    /\ \E i \in DOMAIN file_rows :
           file_rows[i].eventtime = TicksPerHour /\ file_rows[i].useridentity = 1
    /\ UsersOf(result.rows) = {1}
    /\ Len(result.rows) = 2
    /\ \A i \in DOMAIN result.rows : result.rows[i].eventtime = 1

\* The default dates: a row at 2022-01-01T00:00 is returned, a row at
\* 2022-07-01T00:00 is in the log and is not.
C6_DefaultWindowReached ==
    /\ pc = "done" /\ result.kind = "DataFrame"
    /\ start_date = None /\ end_date = None
    /\ \E i \in DOMAIN file_rows : file_rows[i].eventtime = DefaultEnd
    /\ \E i \in DOMAIN result.rows : result.rows[i].eventtime = 0
    /\ Len(result.rows) < Len(file_rows)

\* C7: the rows of a returned incident set are in ascending order of
\* (useridentity, eventtime), whatever the order of the log.
C7_SortedByUserThenTime ==
    (pc = "done" /\ result.kind = "DataFrame") =>
        \A i, j \in DOMAIN result.rows :
            i < j =>
                \/ result.rows[i].useridentity < result.rows[j].useridentity
                \/ /\ result.rows[i].useridentity = result.rows[j].useridentity
                   /\ result.rows[i].eventtime <= result.rows[j].eventtime

\* C7 witness: rows of both users are returned, user 1 with two different
\* times, and the log had them in another order.
C7_Witness ==
    /\ pc = "done" /\ result.kind = "DataFrame"
    /\ UsersOf(result.rows) = {1, 2}
    /\ \E i, j \in DOMAIN result.rows :
           /\ result.rows[i].useridentity = result.rows[j].useridentity
           /\ result.rows[i].eventtime < result.rows[j].eventtime
    /\ result.rows # access_logs

\* C8: the users above the threshold computed with a larger factor are among
\* those computed with a smaller one, for every population size; so are the
\* users of the returned incidents.
C8_ThresholdMonotone ==
    Scored =>
        \A g \in FactorsPop :
            LET with_g == AboveThreshold(user_sensitive_event_counts,
                                         ThresholdOf(user_sensitive_event_counts, g))
            IN  /\ g >= threshold_factor => with_g \subseteq suspected_insiders
                /\ g <= threshold_factor =>
                      /\ suspected_insiders \subseteq with_g
                      /\ pc = "done" =>
                            UsersOf(result.rows) \cup DOMAIN result.series \subseteq with_g

\* C8 witness: a population in which a smaller factor flags strictly more
\* users than the factor of the call, which flags some.
C8_Witness ==
    /\ pc = "done" /\ Scored
    /\ suspected_insiders # {}
    /\ \E g \in FactorsPop :
           /\ g < threshold_factor
           /\ suspected_insiders # AboveThreshold(user_sensitive_event_counts,
                                                  ThresholdOf(user_sensitive_event_counts, g))

\* C9: a user is a lateral-movement suspect exactly when one calendar hour
\* [h, h+1) holds rows of that user, of any event type, on at least
\* lateral_threshold distinct systems.
C9_HourAlignedBuckets ==
    "lateral" \in executed =>
        \A u \in UsersOf(file_rows) :
            u \in lateral_movement_suspects <=>
                \E h \in 0..1 :
                    Cardinality({access_logs[i].system :
                                   i \in {j \in DOMAIN access_logs :
                                            /\ access_logs[j].useridentity = u
                                            /\ h * TicksPerHour <= access_logs[j].eventtime
                                            /\ access_logs[j].eventtime < (h + 1) * TicksPerHour}})
                        >= lateral_threshold

\* C9 witness: user 1 touches two systems on consecutive ticks that lie in
\* two different hours, twice the same system among them, and is no suspect
\* at lateral_threshold 2.
C9_Witness ==
    /\ "lateral" \in executed
    /\ lateral_threshold = 2
    /\ Len(access_logs) = 3
    /\ \A i \in DOMAIN access_logs : access_logs[i].useridentity = 1
    /\ \E i, j \in DOMAIN access_logs :
           /\ access_logs[i].eventtime = TicksPerHour - 1
           /\ access_logs[j].eventtime = TicksPerHour
           /\ access_logs[i].system # access_logs[j].system
    /\ Cardinality({access_logs[i].system : i \in DOMAIN access_logs}) = 2
    /\ 1 \notin lateral_movement_suspects

\* C10: with threshold_factor 3 and at most 10 users having a sensitive row,
\* nobody is above the threshold and the call returns no incident.
C10_NoSuspectUpToTenUsers ==
    (Scored /\ threshold_factor = 3 /\ Cardinality(DOMAIN user_sensitive_event_counts) <= 10) =>
        /\ suspected_insiders = {}
        /\ pc = "done" => NoIncident

\* C10 witness: ten users, nine with one sensitive row and one with more.
C10_Witness ==
    /\ pc = "done" /\ Scored /\ threshold_factor = 3
    /\ Cardinality(DOMAIN user_sensitive_event_counts) = 10
    /\ \A u \in 1..9 : user_sensitive_event_counts[u] = 1
    /\ user_sensitive_event_counts[10] > 1

\* Eleven users: the one with more rows than the ten others is flagged.
C10_ElevenUsersFlagged ==
    /\ pc = "done" /\ threshold_factor = 3
    /\ Cardinality(DOMAIN user_sensitive_event_counts) = 11
    /\ suspected_insiders = {11}

=============================================================================
